---- MODULE Spec2Model ----
(***************************************************************************)
(* Model of the arXiv fulltext extraction service: the submit controller   *)
(* (fulltext/controllers.py), the task coordinator and worker task         *)
(* (fulltext/extract.py), the filesystem store                             *)
(* (fulltext/services/store/store.py) and the task queue and result        *)
(* backend as the code uses them.                                          *)
(***************************************************************************)
EXTENDS Integers, Sequences, FiniteSets, TLC

(* ------------------------------ bounds --------------------------------- *)
\* concurrent start_extraction requests (each slot serves one request)
MaxRequests == 2
\* worker processes draining the queue
MaxWorkers == 2
\* failures of the environment in one behaviour: a worker lost before it
\* acknowledged, a failing file write, a failing publish
MaxFailures == 1

Requests == 1..MaxRequests
Workers == 1..MaxWorkers

\* datetime.now(UTC).  The code stores the readings and tests them for null
\* only, so a reading is identified by the process that took it.
datetime_now(r) == r
worker_now(w) == MaxRequests + w

(* --------------------------- value domains ----------------------------- *)
NULL == "null"
\* the null datetime
NoTime == 0

IN_PROGRESS == "in_progress"
SUCCEEDED == "succeeded"
FAILED == "failed"

ARXIV == "arxiv"
SUBMISSION == "submission"
SupportedBuckets == {ARXIV, SUBMISSION}
\* another bucket name a client can put in the URL
UnsupportedBuckets == {"submissions"}

\* an arXiv paper id and a submission id (source id / checksum)
ArxivIdentifiers == {"2102.00123"}
SubmissionIdentifiers == {"12345/asdf12345"}
Identifiers == ArxivIdentifiers \cup SubmissionIdentifiers
Owners == {"1234"}
\* text the sandbox extractor can produce
Contents == {"FOO pDf cOntent"}
\* exceptions raised by PDF retrieval and by the sandbox
Errors == {"NoContentError"}

EXTRACTOR_VERSION == "0.3"
Versions == {EXTRACTOR_VERSION}

get_version == EXTRACTOR_VERSION

\* the (identifier, bucket, version) paths the requests can name
Triples ==
    (ArxivIdentifiers \X {ARXIV} \X Versions)
    \cup (SubmissionIdentifiers \X {SUBMISSION} \X Versions)

\* the task id without the extractor version
task_id_NoVersion(identifier, id_type, version) ==
    id_type \o "::" \o identifier

task_id(identifier, id_type, version) ==
    id_type \o "::" \o identifier \o "::" \o version

(* ------------------------------ domain --------------------------------- *)
\* An Extraction without its content; present = FALSE is "no meta.json".
NoExtraction ==
    [present |-> FALSE, identifier |-> NULL, version |-> NULL, bucket |-> NULL,
     started |-> NoTime, ended |-> NoTime, owner |-> NULL, exception |-> NULL,
     task_id |-> NULL, status |-> NULL]

Extraction(identifier, version, bucket, started, owner, tid, status) ==
    [present |-> TRUE, identifier |-> identifier, version |-> version,
     bucket |-> bucket, started |-> started, ended |-> NoTime,
     owner |-> owner, exception |-> NULL, task_id |-> tid, status |-> status]

completed(extraction) == extraction.status \in {SUCCEEDED, FAILED}

NoBlobs == [plain |-> NULL, psv |-> NULL]

\* what the result backend holds for a task id: nothing, the return value of
\* extract (extraction.to_dict() without 'content'), or the exception
NoResult == [kind |-> NULL, owner |-> NULL, exception |-> NULL]
DictResult(extraction) ==
    [kind |-> "dict", owner |-> extraction.owner, exception |-> NULL]
ExceptionResult(exc) ==
    [kind |-> "exception", owner |-> NULL, exception |-> exc]

\* normalize_text_psv on the texts of Contents
normalize_text_psv(txt) ==
    CASE txt = "FOO pDf cOntent" -> "foo pdf content"
      [] OTHER -> txt

(* ------------------------------ state ---------------------------------- *)
VARIABLES
    meta,       \* meta.json of every (identifier, bucket, version)
    blobs,      \* the plain and psv files of every triple
    queue,      \* number of undelivered 'extract' messages per triple
    backend,    \* the result backend: state and result per triple's task id
    req,        \* the start_extraction requests
    wrk,        \* the worker processes
    failures,   \* failures of the environment so far
    resource,   \* the upstream resource the requests are about
    call        \* a function called on its own: its arguments and result

vars == <<meta, blobs, queue, backend, req, wrk, failures, resource, call>>

\* A behaviour follows the requests for one resource: requests for different
\* resources share no file, no message and no backend key.  owner is the
\* ARXIV-OWNER header the preview service sends for it (NULL: no header).
Resources ==
    {[id_type |-> ARXIV, identifier |-> i, owner |-> NULL] :
        i \in ArxivIdentifiers}
    \cup {[id_type |-> SUBMISSION, identifier |-> i, owner |-> o] :
              i \in SubmissionIdentifiers, o \in Owners \cup {NULL}}

NoLocation == [endpoint |-> NULL, identifier |-> NULL, id_type |-> NULL]

url_for(endpoint, identifier, id_type) ==
    [endpoint |-> endpoint, identifier |-> identifier, id_type |-> id_type]

IdleRequest ==
    [pc |-> "idle", id_type |-> NULL, identifier |-> NULL, force |-> FALSE,
     owner |-> NULL, authorizer |-> "none",
     code |-> 0, location |-> NoLocation,
     \* history, kept until the request returns: create_task was called with
     \* force = true while the stored record of the triple was terminal
     terminal |-> FALSE,
     \* history: the authorizer was called in this request and approved
     approved |-> FALSE]

\* no function is called on its own
NoCall == [fn |-> NULL, args |-> <<>>, result |-> <<>>]

IdleWorker ==
    [pc |-> "idle", task |-> <<NULL, NULL, NULL>>, extraction |-> NoExtraction,
     content |-> NULL, exc |-> NULL, stores |-> 0]

Init ==
    /\ meta = [t \in Triples |-> NoExtraction]
    /\ blobs = [t \in Triples |-> NoBlobs]
    /\ queue = [t \in Triples |-> 0]
    /\ backend = [t \in Triples |-> [state |-> "PENDING", result |-> NoResult]]
    /\ req = [r \in Requests |-> IdleRequest]
    /\ wrk = [w \in Workers |-> IdleWorker]
    /\ failures = 0
    /\ resource \in Resources
    /\ call = NoCall

(* ------------------------------- store --------------------------------- *)
\* float(value) in tenths, 0.0 for a name that is not a number
_try_float(value) ==
    CASE value = "0.2" -> 2
      [] value = "0.3" -> 3
      [] value = "0.4" -> 4
      [] value = "-1.0" -> -10
      [] OTHER -> 0

\* p.startswith('.')
Hidden(value) == value = ".tmp"

\* sorted([p for p in paths if not p.startswith('.')], key=_try_float)[-1]
\* for the listing paths; the sort is stable, so among names with the
\* largest key the one listed last comes last.
LatestOf(paths) ==
    LET versions == SelectSeq(paths, LAMBDA p : ~Hidden(p))
    IN  IF versions = <<>>
        THEN "DoesNotExist"
        ELSE versions[CHOOSE i \in 1..Len(versions) :
                        \A j \in 1..Len(versions) :
                            \/ _try_float(versions[j]) < _try_float(versions[i])
                            \/ /\ _try_float(versions[j]) = _try_float(versions[i])
                               /\ j <= i]

\* extractor versions other than the configured one, under which a store
\* can hold products: an earlier and a later one
OtherVersions == {"0.2", "0.4"}

\* os.listdir of the identifier path: a version directory exists as soon as
\* one file was written below it
VersionDirs(identifier, bucket) ==
    {v \in Versions \cup OtherVersions :
        /\ <<identifier, bucket, v>> \in DOMAIN meta
        /\ \/ meta[<<identifier, bucket, v>>].present
           \/ blobs[<<identifier, bucket, v>>] # NoBlobs}

\* _latest_version taking the first of the sorted names
_latest_version_First(identifier, bucket) ==
    LET dirs == VersionDirs(identifier, bucket)
    IN  {v \in dirs : \A u \in dirs : _try_float(v) <= _try_float(u)}

\* The names _latest_version can return: the last of the listing sorted by
\* _try_float; the sort is stable and the listing order arbitrary, so any name
\* with the largest key can come last.
_latest_version(identifier, bucket) ==
    LET dirs == VersionDirs(identifier, bucket)
    IN  {v \in dirs : \A u \in dirs : _try_float(u) <= _try_float(v)}

\* Storage.retrieve with meta_only reads meta.json of the version asked for,
\* or of _latest_version, and raises DoesNotExist without it; its
\* Extraction.Status(meta['status']) is read as the conversion of the stored
\* string to the status it names.  The model keeps the record as retrieve
\* returns it, so a read is an access to meta.

\* datetime.isoformat of the readings of the clock, and None as null
isoformat(t) ==
    IF t \in 1..(MaxRequests + MaxWorkers)
    THEN "2019-01-01T00:00:" \o (IF t < 10 THEN "0" ELSE "") \o ToString(t)
             \o "+00:00"
    ELSE NULL

\* datetime.fromisoformat
fromisoformat(text) ==
    CHOOSE t \in 1..(MaxRequests + MaxWorkers) : isoformat(t) = text

\* Extraction.to_dict without the times
to_dict_NoEnded(extraction) ==
    [extraction EXCEPT
        !.started = IF extraction.started # NoTime
                    THEN isoformat(extraction.started) ELSE NULL,
        !.ended = NULL]

\* Extraction.to_dict, 'content' popped: what Storage.store dumps into
\* meta.json.  The times become ISO strings, the status its value.
to_dict(extraction) ==
    [extraction EXCEPT
        !.started = IF extraction.started # NoTime
                    THEN isoformat(extraction.started) ELSE NULL,
        !.ended = IF extraction.ended # NoTime
                  THEN isoformat(extraction.ended) ELSE NULL]

\* Storage.retrieve: the fields of a loaded meta.json as passed to Extraction
load_meta(data) ==
    [data EXCEPT
        !.started = IF data.started # NULL
                    THEN fromisoformat(data.started) ELSE NoTime,
        !.ended = IF data.ended # NULL
                  THEN fromisoformat(data.ended) ELSE NoTime]

\* what Storage.retrieve gives: an error, or the record and its content
Retrieved(error, extraction, content) ==
    [error |-> error, extraction |-> extraction, content |-> content]

\* Storage.retrieve failing for a missing content file as well
retrieve_BlobRequired(metas, files, triple, content_fmt, meta_only) ==
    IF ~metas[triple].present
    THEN Retrieved("DoesNotExist", NoExtraction, NULL)
    ELSE IF meta_only
    THEN Retrieved(NULL, metas[triple], NULL)
    ELSE IF files[triple][content_fmt] = NULL
    THEN Retrieved("DoesNotExist", NoExtraction, NULL)
    ELSE Retrieved(NULL, metas[triple], files[triple][content_fmt])

\* Storage.retrieve once the version is known: DoesNotExist without
\* meta.json, else the record, with the content of the file of content_fmt
\* unless meta_only is set or the file is missing
retrieve(metas, files, triple, content_fmt, meta_only) ==
    IF ~metas[triple].present
    THEN Retrieved("DoesNotExist", NoExtraction, NULL)
    ELSE Retrieved(NULL, metas[triple],
                   IF meta_only THEN NULL ELSE files[triple][content_fmt])

\* Storage.retrieve(identifier, bucket=bucket, meta_only=...) with no version
\* given: what it can give for the version _latest_version resolves to
retrieve_latest(identifier, bucket, content_fmt, meta_only) ==
    IF _latest_version(identifier, bucket) = {}
    THEN {Retrieved("DoesNotExist", NoExtraction, NULL)}
    ELSE {retrieve(meta, blobs, <<identifier, bucket, v>>, content_fmt,
                   meta_only) : v \in _latest_version(identifier, bucket)}

\* Storage.store writing the blob whenever a format is given
StoredBlobs_WheneverFormat(old, content_fmt, content) ==
    IF content_fmt # NULL
    THEN [old EXCEPT ![content_fmt] = IF content = NULL THEN "" ELSE content]
    ELSE old

\* Storage.store: the files after a successful call.  content = NULL or
\* content_fmt = NULL writes no blob.
StoredBlobs(old, content_fmt, content) ==
    IF content_fmt # NULL /\ content # NULL
    THEN [old EXCEPT ![content_fmt] = content]
    ELSE old

(* ---------------------------- controllers ------------------------------ *)
\* The authorizer injected by the route: none, or routes.make_authorizer for
\* the session of user 1234, who holds no scope for the resource and is
\* approved for the resources 1234 owns.
Authorizers == {"none", "user:1234"}

\* identifier.split('/', 1) yields a source id and a checksum
HasSourceId(identifier) == identifier \in SubmissionIdentifiers

\* make_authorizer's inner function.  For an identifier that does not split
\* it raises NotFound, which both of its callers answer as a rejection.
authorize(authorizer, identifier, owner_id) ==
    /\ authorizer = "user:1234"
    /\ HasSourceId(identifier)
    /\ owner_id = "1234"

\* the enum class itself, which _redirect compares with its member
Status == "Status"

Response(code, location) == [code |-> code, location |-> location]

_redirect(extraction, authorizer) ==
    IF authorizer # "none"
       /\ ~authorize(authorizer, extraction.identifier, extraction.owner)
    THEN Response(404, NoLocation)
    ELSE IF Status = IN_PROGRESS
    THEN Response(303, url_for("fulltext.task_status",
                               extraction.identifier, extraction.bucket))
    ELSE Response(303, url_for("fulltext.retrieve",
                               extraction.identifier, extraction.bucket))

Respond(r, response) ==
    req' = [req EXCEPT ![r].pc = "done", ![r].owner = NULL,
                       ![r].terminal = FALSE,
                       ![r].code = response.code,
                       ![r].location = response.location]

ReqTriple(r) == <<req[r].identifier, req[r].id_type, get_version>>

\* the check for an existing product, with every lookup ending in DoesNotExist
CheckExisting_DoesNotExist(r, q) ==
    req' = [req EXCEPT ![r] = [q EXCEPT !.pc = "store", !.authorizer = "none"]]

\* the check for an existing product, with a failed product submitted again
CheckExisting_RetryFailed(r, q) ==
    LET latest == _latest_version(q.identifier, q.id_type)
        proceed == [q EXCEPT !.pc = "store", !.authorizer = "none"]
    IN  IF latest = {}
        THEN req' = [req EXCEPT ![r] = proceed]
        ELSE \E version \in latest :
               LET product == meta[<<q.identifier, q.id_type, version>>]
               IN  IF ~product.present \/ product.status = FAILED
                   THEN req' = [req EXCEPT ![r] = proceed]
                   ELSE LET response == _redirect(product, q.authorizer)
                        IN  req' = [req EXCEPT ![r] =
                                      [q EXCEPT
                                         !.pc = "done",
                                         !.owner = NULL,
                                         !.code = response.code,
                                         !.location = response.location]]

\* start_extraction, the check for an existing product (force = false);
\* q is the request with its inputs
CheckExisting(r, q) ==
    LET latest == _latest_version(q.identifier, q.id_type)
        proceed == [q EXCEPT !.pc = "store", !.authorizer = "none"]
    IN  IF latest = {}
        THEN req' = [req EXCEPT ![r] = proceed]
        ELSE \E version \in latest :
               LET product == meta[<<q.identifier, q.id_type, version>>]
               IN  IF ~product.present
                   THEN req' = [req EXCEPT ![r] = proceed]
                   ELSE LET response == _redirect(product, q.authorizer)
                        IN  req' = [req EXCEPT ![r] =
                                      [q EXCEPT
                                         !.pc = "done",
                                         !.owner = NULL,
                                         !.code = response.code,
                                         !.location = response.location]]

\* create_task publishing without the pre-emptive metadata write
StoreInProgress_NoWrite(r, q) ==
    \/ /\ req' = [req EXCEPT ![r] = [q EXCEPT !.pc = "publish",
                                              !.owner = NULL]]
       /\ UNCHANGED <<meta, failures>>
    \/ /\ failures < MaxFailures
       /\ failures' = failures + 1
       /\ req' = [req EXCEPT ![r] = [q EXCEPT !.pc = "done",
                                              !.owner = NULL,
                                              !.terminal = FALSE,
                                              !.code = 500]]
       /\ UNCHANGED meta

\* create_task updating the status of the record it finds instead of
\* writing a fresh one
StoreInProgress_KeepsOutcome(r, q) ==
    LET version == get_version
        t == <<q.identifier, q.id_type, version>>
        fresh == Extraction(q.identifier, version, q.id_type,
                            datetime_now(r), q.owner,
                            task_id(q.identifier, q.id_type, version),
                            IN_PROGRESS)
    IN  \/ /\ meta' = [meta EXCEPT ![t] =
                  IF meta[t].present
                  THEN [meta[t] EXCEPT !.status = IN_PROGRESS,
                                       !.started = datetime_now(r)]
                  ELSE fresh]
           /\ req' = [req EXCEPT ![r] = [q EXCEPT !.pc = "publish",
                                                  !.owner = NULL]]
           /\ UNCHANGED failures
        \/ /\ failures < MaxFailures
           /\ failures' = failures + 1
           /\ req' = [req EXCEPT ![r] = [q EXCEPT !.pc = "done",
                                                  !.owner = NULL,
                                                  !.terminal = FALSE,
                                                  !.code = 500]]
           /\ UNCHANGED meta

\* create_task recording the requesting user as the owner when start_extraction
\* passes none
StoreInProgress_RequesterOwns(r, q) ==
    LET version == get_version
        t == <<q.identifier, q.id_type, version>>
    IN  \/ /\ meta' = [meta EXCEPT ![t] =
                  Extraction(q.identifier, version, q.id_type,
                             datetime_now(r),
                             IF q.owner = NULL THEN "1234" ELSE q.owner,
                             task_id(q.identifier, q.id_type, version),
                             IN_PROGRESS)]
           /\ req' = [req EXCEPT ![r] = [q EXCEPT !.pc = "publish",
                                                  !.owner = NULL]]
           /\ UNCHANGED failures
        \/ /\ failures < MaxFailures
           /\ failures' = failures + 1
           /\ req' = [req EXCEPT ![r] = [q EXCEPT !.pc = "done",
                                                  !.owner = NULL,
                                                  !.terminal = FALSE,
                                                  !.code = 500]]
           /\ UNCHANGED meta

\* create_task: the pre-emptive metadata write
StoreInProgress(r, q) ==
    LET version == get_version
        t == <<q.identifier, q.id_type, version>>
    IN  \/ /\ meta' = [meta EXCEPT ![t] =
                  Extraction(q.identifier, version, q.id_type,
                             datetime_now(r), q.owner,
                             task_id(q.identifier, q.id_type, version),
                             IN_PROGRESS)]
           /\ req' = [req EXCEPT ![r] = [q EXCEPT !.pc = "publish",
                                                  !.owner = NULL]]
           /\ UNCHANGED failures
        \/ \* StorageFailed -> TaskCreationFailed -> InternalServerError
           /\ failures < MaxFailures
           /\ failures' = failures + 1
           /\ req' = [req EXCEPT ![r] = [q EXCEPT !.pc = "done",
                                                  !.owner = NULL,
                                                  !.terminal = FALSE,
                                                  !.code = 500]]
           /\ UNCHANGED meta

\* start_extraction from the request to its first access to the store: the
\* bucket check, upstream existence, owner lookup and authorization, then
\* the check for an existing product or, when forced, create_task's write
StartExtraction(r) ==
    /\ req[r].pc = "idle"
    /\ \E id_type \in {resource.id_type} \cup UnsupportedBuckets,
          force \in BOOLEAN, authorizer \in Authorizers, exists \in BOOLEAN :
          LET identifier == resource.identifier
              owner == IF id_type = SUBMISSION THEN resource.owner ELSE NULL
              refused ==
                  \/ id_type \notin SupportedBuckets
                  \/ ~exists
                  \/ /\ id_type = ARXIV
                     /\ authorizer # "none"
                     /\ ~authorize(authorizer, identifier, owner)
              q == [IdleRequest EXCEPT
                      !.id_type = id_type, !.identifier = identifier,
                      !.force = force, !.owner = owner,
                      !.authorizer = IF force THEN "none" ELSE authorizer,
                      !.approved =
                          /\ id_type = ARXIV /\ authorizer # "none"
                          /\ authorize(authorizer, identifier, owner),
                      !.terminal =
                          /\ force /\ ~refused
                          /\ completed(meta[<<identifier, id_type,
                                               get_version>>])]
          IN  IF refused
              THEN /\ Respond(r, Response(404, NoLocation))
                   /\ UNCHANGED <<meta, failures>>
              ELSE IF force
              THEN StoreInProgress(r, q)
              ELSE /\ CheckExisting(r, q)
                   /\ UNCHANGED <<meta, failures>>
    /\ UNCHANGED <<blobs, queue, backend, wrk, resource, call>>

\* start_extraction calls create_task after the check found nothing
CreateTask(r) ==
    /\ req[r].pc = "store"
    /\ StoreInProgress(r, req[r])
    /\ UNCHANGED <<blobs, queue, backend, wrk, resource, call>>

\* create_task: send_task publishes the message
SendTask(r) ==
    /\ req[r].pc = "publish"
    /\ LET t == ReqTriple(r)
       IN  \/ /\ queue' = [queue EXCEPT ![t] = @ + 1]
              /\ req' = [req EXCEPT ![r].pc = "sent"]
              /\ UNCHANGED failures
           \/ \* broker unreachable -> TaskCreationFailed
              /\ failures < MaxFailures
              /\ failures' = failures + 1
              /\ Respond(r, Response(500, NoLocation))
              /\ UNCHANGED queue
    /\ UNCHANGED <<meta, blobs, backend, wrk, resource, call>>

\* create_task returning without update_sent_state connected to the publish
Accepted_NoSent(r) ==
    /\ req[r].pc = "sent"
    /\ Respond(r, Response(202, url_for("fulltext.task_status",
                                        req[r].identifier, req[r].id_type)))
    /\ UNCHANGED <<meta, blobs, queue, backend, wrk, failures, resource, call>>

\* update_sent_state runs after the publish; then start_extraction returns
Accepted(r) ==
    /\ req[r].pc = "sent"
    /\ backend' = [backend EXCEPT ![ReqTriple(r)] =
                      [state |-> "SENT", result |-> NoResult]]
    /\ Respond(r, Response(202, url_for("fulltext.task_status",
                                        req[r].identifier, req[r].id_type)))
    /\ UNCHANGED <<meta, blobs, queue, wrk, failures, resource, call>>

\* The answers of the read controllers: the status code, the Location
\* header, and of the body the status, the content, the stored exception and
\* the reason (for a NotFound, its description).
Body(status, content, exception, reason) ==
    [status |-> status, content |-> content, exception |-> exception,
     reason |-> reason]

Answer(code, location, data) ==
    [code |-> code, location |-> location, data |-> data]

NotFound(description) ==
    Answer(404, NoLocation, Body(NULL, NULL, NULL, description))

\* str(exception)
str(value) == IF value = NULL THEN "None" ELSE value

\* controllers.retrieve telling a rejected caller that access is forbidden
controllers_retrieve_Forbidden(identifier, id_type, content_fmt, authorizer) ==
    IF id_type \notin SupportedBuckets
    THEN {NotFound("Unrecognized identifier")}
    ELSE IF _latest_version(identifier, id_type) = {}
    THEN {NotFound("No such extraction")}
    ELSE {LET product == retrieve(meta, blobs, <<identifier, id_type, version>>,
                                  content_fmt, FALSE)
          IN  IF product.error # NULL
              THEN NotFound("No such extraction")
              ELSE IF authorizer # "none"
                      /\ ~authorize(authorizer, identifier,
                                    product.extraction.owner)
              THEN Answer(403, NoLocation, Body(NULL, NULL, NULL, "Forbidden"))
              ELSE IF product.content = NULL
                      /\ product.extraction.status = IN_PROGRESS
              THEN Answer(303, url_for("fulltext.task_status", identifier,
                                       id_type),
                          Body(IN_PROGRESS, NULL, NULL, NULL))
              ELSE Answer(200, NoLocation,
                          Body(product.extraction.status, product.content,
                               product.extraction.exception, NULL))
          : version \in _latest_version(identifier, id_type)}

\* controllers.retrieve for the latest version: the answers it can give on
\* the store as it is
controllers_retrieve(identifier, id_type, content_fmt, authorizer) ==
    IF id_type \notin SupportedBuckets
    THEN {NotFound("Unrecognized identifier")}
    ELSE IF _latest_version(identifier, id_type) = {}
    THEN {NotFound("No such extraction")}
    ELSE {LET product == retrieve(meta, blobs, <<identifier, id_type, version>>,
                                  content_fmt, FALSE)
          IN  IF product.error # NULL
              THEN NotFound("No such extraction")
              ELSE IF authorizer # "none"
                      /\ ~authorize(authorizer, identifier,
                                    product.extraction.owner)
              THEN NotFound("No such extraction")
              ELSE IF product.content = NULL
                      /\ product.extraction.status = IN_PROGRESS
              THEN Answer(303, url_for("fulltext.task_status", identifier,
                                       id_type),
                          Body(IN_PROGRESS, NULL, NULL, NULL))
              ELSE Answer(200, NoLocation,
                          Body(product.extraction.status, product.content,
                               product.extraction.exception, NULL))
          : version \in _latest_version(identifier, id_type)}

\* what extract.get_task gives: an error, or the Extraction it builds
Task(error, extraction) == [error |-> error, extraction |-> extraction]

\* extract.get_task: the Extraction made from the state and result the
\* backend holds for the task id; NoSuchTask for PENDING, RuntimeError for a
\* state it does not know
get_task(identifier, id_type, version) ==
    LET result == backend[<<identifier, id_type, version>>]
        made(_status, exception, owner) ==
            Task(NULL,
                 [Extraction(identifier, version, id_type, NoTime, owner,
                             task_id(identifier, id_type, version), _status)
                    EXCEPT !.exception = exception])
    IN  CASE result.state = "PENDING" -> Task("NoSuchTask", NoExtraction)
          [] result.state \in {"SENT", "STARTED", "RETRY"} ->
                made(IN_PROGRESS, NULL, NULL)
          [] result.state = "FAILURE" ->
                made(FAILED, str(result.result.exception), NULL)
          [] result.state = "SUCCESS" ->
                made(SUCCEEDED, NULL, str(result.result.owner))
          [] OTHER -> Task("RuntimeError", NoExtraction)

_task_redirect(task, product, identifier, id_type) ==
    CASE task.status = IN_PROGRESS ->
            Answer(200, NoLocation,
                   Body(IN_PROGRESS, NULL, product.exception, NULL))
      [] task.status = FAILED ->
            Answer(200, NoLocation,
                   Body(product.status, NULL, product.exception,
                        str(task.exception)))
      [] task.status = SUCCEEDED ->
            Answer(303, url_for("fulltext.retrieve", identifier, id_type),
                   Body(SUCCEEDED, NULL, product.exception, NULL))
      [] OTHER ->
            Answer(200, NoLocation,
                   Body(product.status, NULL, product.exception, NULL))

\* get_task_status: the version it passes to get_task for the version of the
\* request (None: the configured extractor version)
status_version(version) == IF version = NULL THEN get_version ELSE version

\* controllers.get_task_status for the latest version: the answers it can
\* give on the store and the result backend as they are
get_task_status(identifier, id_type, authorizer) ==
    IF id_type \notin SupportedBuckets
    THEN {NotFound("Unsupported identifier")}
    ELSE IF _latest_version(identifier, id_type) = {}
    THEN {NotFound("No such task")}
    ELSE {LET product == retrieve(meta, blobs, <<identifier, id_type, version>>,
                                  "plain", TRUE)
          IN  IF product.error # NULL
              THEN NotFound("No such task")
              ELSE IF authorizer # "none"
                      /\ ~authorize(authorizer, identifier,
                                    product.extraction.owner)
              THEN NotFound("No such task")
              ELSE IF product.extraction.status = SUCCEEDED
              THEN Answer(303, url_for("fulltext.retrieve", identifier, id_type),
                          Body(SUCCEEDED, NULL, product.extraction.exception,
                               NULL))
              ELSE LET task == get_task(identifier, id_type,
                                        status_version(NULL))
                   IN  IF task.error = "RuntimeError"
                       THEN Answer(500, NoLocation,
                                   Body(NULL, NULL, NULL, "RuntimeError"))
                       ELSE _task_redirect(
                                IF task.error = "NoSuchTask"
                                THEN product.extraction
                                ELSE task.extraction,
                                product.extraction, identifier, id_type)
          : version \in _latest_version(identifier, id_type)}

(* ------------------------------- worker -------------------------------- *)
\* Extraction.copy dropping the ended argument
copy_KeepsEnded(extraction, status, ended, exception) ==
    [extraction EXCEPT !.status = status, !.exception = exception]

\* Extraction.copy(status=..., ended=..., exception=...)
copy(extraction, status, ended, exception) ==
    [extraction EXCEPT !.status = status, !.ended = ended,
                       !.exception = exception]

Failing(w, exc) ==
    wrk' = [wrk EXCEPT ![w].pc = "raise", ![w].exc = exc]

\* a worker receives an 'extract' message; it is acknowledged only when the
\* task has finished (task_acks_late)
Take(w) ==
    /\ wrk[w].pc = "idle"
    /\ \E t \in Triples :
          /\ queue[t] > 0
          /\ queue' = [queue EXCEPT ![t] = @ - 1]
          /\ wrk' = [wrk EXCEPT ![w] = [IdleWorker EXCEPT !.pc = "load",
                                                          !.task = t]]
    /\ UNCHANGED <<meta, blobs, backend, req, failures, resource, call>>

\* extract going on with a fresh record when the store holds none
Load_WithoutRecord(w) ==
    /\ wrk[w].pc = "load"
    /\ LET t == wrk[w].task
           extraction ==
               IF meta[t].present THEN meta[t]
               ELSE Extraction(t[1], t[3], t[2], worker_now(w), NULL,
                               task_id(t[1], t[2], t[3]), IN_PROGRESS)
       IN  \/ \E content \in Contents :
                 wrk' = [wrk EXCEPT ![w].pc = "plain",
                                    ![w].extraction = extraction,
                                    ![w].content = content]
           \/ \E e \in Errors :
                 wrk' = [wrk EXCEPT ![w].pc = "failed",
                                    ![w].extraction = extraction,
                                    ![w].exc = e]
    /\ UNCHANGED <<meta, blobs, queue, backend, req, failures, resource, call>>

\* extract answering a missing record with NoSuchTask
Load_NoSuchTask(w) ==
    /\ wrk[w].pc = "load"
    /\ IF meta[wrk[w].task].present
       THEN \/ \E content \in Contents :
                  wrk' = [wrk EXCEPT ![w].pc = "plain",
                                     ![w].extraction = meta[wrk[w].task],
                                     ![w].content = content]
            \/ \E e \in Errors :
                  wrk' = [wrk EXCEPT ![w].pc = "failed",
                                     ![w].extraction = meta[wrk[w].task],
                                     ![w].exc = e]
       ELSE Failing(w, "NoSuchTask")
    /\ UNCHANGED <<meta, blobs, queue, backend, req, failures, resource, call>>

\* extract: storage.retrieve(identifier, version, bucket, meta_only=True),
\* then _retrieve_pdf, _store_pdf_in_workdir and do_extraction
Load(w) ==
    /\ wrk[w].pc = "load"
    /\ IF meta[wrk[w].task].present
       THEN \/ \E content \in Contents :
                  wrk' = [wrk EXCEPT ![w].pc = "plain",
                                     ![w].extraction = meta[wrk[w].task],
                                     ![w].content = content]
            \/ \E e \in Errors :
                  wrk' = [wrk EXCEPT ![w].pc = "failed",
                                     ![w].extraction = meta[wrk[w].task],
                                     ![w].exc = e]
       ELSE Failing(w, "DoesNotExist")
    /\ UNCHANGED <<meta, blobs, queue, backend, req, failures, resource, call>>

\* the except branch storing the failure without the exception's text
StoreFailed_NoException(w) ==
    /\ wrk[w].pc = "failed"
    /\ \/ /\ meta' = [meta EXCEPT ![wrk[w].task] =
                        copy(wrk[w].extraction, FAILED, worker_now(w), NULL)]
          /\ wrk' = [wrk EXCEPT ![w].pc = "raise", ![w].stores = @ + 1]
          /\ UNCHANGED failures
       \/ /\ failures < MaxFailures
          /\ failures' = failures + 1
          /\ wrk' = [wrk EXCEPT ![w].pc = "raise", ![w].stores = @ + 1,
                                ![w].exc = "StorageFailed"]
          /\ UNCHANGED meta
    /\ UNCHANGED <<blobs, queue, backend, req, resource, call>>

\* extract, the except branch: store the failure, then re-raise
StoreFailed(w) ==
    /\ wrk[w].pc = "failed"
    /\ \/ /\ meta' = [meta EXCEPT ![wrk[w].task] =
                        copy(wrk[w].extraction, FAILED, worker_now(w), wrk[w].exc)]
          /\ wrk' = [wrk EXCEPT ![w].pc = "raise", ![w].stores = @ + 1]
          /\ UNCHANGED failures
       \/ \* the write fails: StorageFailed leaves extract instead
          /\ failures < MaxFailures
          /\ failures' = failures + 1
          /\ wrk' = [wrk EXCEPT ![w].pc = "raise", ![w].stores = @ + 1,
                                ![w].exc = "StorageFailed"]
          /\ UNCHANGED meta
    /\ UNCHANGED <<blobs, queue, backend, req, resource, call>>

\* extract: copy(status=SUCCEEDED, ended=now, content=content) and
\* storage.store(extraction, 'plain'), which writes the blob first
StorePlain(w) ==
    /\ wrk[w].pc = "plain"
    /\ \/ /\ blobs' = [blobs EXCEPT ![wrk[w].task] =
                         StoredBlobs(@, "plain", wrk[w].content)]
          /\ wrk' = [wrk EXCEPT ![w].pc = "plain_meta", ![w].stores = @ + 1,
                                ![w].extraction =
                                    copy(@, SUCCEEDED, worker_now(w), @.exception)]
          /\ UNCHANGED failures
       \/ /\ failures < MaxFailures
          /\ failures' = failures + 1
          /\ wrk' = [wrk EXCEPT ![w].pc = "raise", ![w].stores = @ + 1,
                                ![w].exc = "StorageFailed"]
          /\ UNCHANGED blobs
    /\ UNCHANGED <<meta, queue, backend, req, resource, call>>

\* Storage.store: the metadata write that follows the blob
StoreMeta(w, pc, next) ==
    /\ wrk[w].pc = pc
    /\ \/ /\ meta' = [meta EXCEPT ![wrk[w].task] = wrk[w].extraction]
          /\ wrk' = [wrk EXCEPT ![w].pc = next]
          /\ UNCHANGED failures
       \/ /\ failures < MaxFailures
          /\ failures' = failures + 1
          /\ Failing(w, "StorageFailed")
          /\ UNCHANGED meta
    /\ UNCHANGED <<blobs, queue, backend, req, resource, call>>

StorePlainMeta(w) == StoreMeta(w, "plain_meta", "psv")

\* the PSV step handling its failure as the except branch does: the record
\* is stored as failed
StorePsv_RecordsFailure(w) ==
    /\ wrk[w].pc = "psv"
    /\ \/ /\ blobs' = [blobs EXCEPT ![wrk[w].task] =
                 StoredBlobs(@, "psv", normalize_text_psv(wrk[w].content))]
          /\ wrk' = [wrk EXCEPT ![w].pc = "psv_meta", ![w].stores = @ + 1,
                       ![w].content = normalize_text_psv(wrk[w].content)]
          /\ UNCHANGED <<meta, failures>>
       \/ /\ Failing(w, "PsvError")
          /\ meta' = [meta EXCEPT ![wrk[w].task] =
                        copy(wrk[w].extraction, FAILED, worker_now(w), "PsvError")]
          /\ UNCHANGED <<blobs, failures>>
       \/ /\ failures < MaxFailures
          /\ failures' = failures + 1
          /\ wrk' = [wrk EXCEPT ![w].pc = "raise", ![w].stores = @ + 1,
                                ![w].exc = "StorageFailed"]
          /\ UNCHANGED <<meta, blobs>>
    /\ UNCHANGED <<queue, backend, req, resource, call>>

\* extract: copy(content=normalize_text_psv(content)) and
\* storage.store(extraction, 'psv'), up to the blob write
StorePsv(w) ==
    /\ wrk[w].pc = "psv"
    /\ \/ /\ blobs' = [blobs EXCEPT ![wrk[w].task] =
                 StoredBlobs(@, "psv", normalize_text_psv(wrk[w].content))]
          /\ wrk' = [wrk EXCEPT ![w].pc = "psv_meta", ![w].stores = @ + 1,
                       ![w].content = normalize_text_psv(wrk[w].content)]
          /\ UNCHANGED failures
       \/ \* normalize_text_psv raises
          /\ Failing(w, "PsvError")
          /\ UNCHANGED <<blobs, failures>>
       \/ \* the blob write fails
          /\ failures < MaxFailures
          /\ failures' = failures + 1
          /\ wrk' = [wrk EXCEPT ![w].pc = "raise", ![w].stores = @ + 1,
                                ![w].exc = "StorageFailed"]
          /\ UNCHANGED blobs
    /\ UNCHANGED <<meta, queue, backend, req, resource, call>>

StorePsvMeta(w) == StoreMeta(w, "psv_meta", "return")

\* extract returns: the backend records SUCCESS with the result, the message
\* is acknowledged
Return(w) ==
    /\ wrk[w].pc = "return"
    /\ backend' = [backend EXCEPT ![wrk[w].task] =
                     [state |-> "SUCCESS",
                      result |-> DictResult(wrk[w].extraction)]]
    /\ wrk' = [wrk EXCEPT ![w] = IdleWorker]
    /\ UNCHANGED <<meta, blobs, queue, req, failures, resource, call>>

\* an exception leaves extract: the backend records FAILURE with it, the
\* message is acknowledged
Raise(w) ==
    /\ wrk[w].pc = "raise"
    /\ backend' = [backend EXCEPT ![wrk[w].task] =
                     [state |-> "FAILURE",
                      result |-> ExceptionResult(wrk[w].exc)]]
    /\ wrk' = [wrk EXCEPT ![w] = IdleWorker]
    /\ UNCHANGED <<meta, blobs, queue, req, failures, resource, call>>

\* the worker is lost before it acknowledged: the message is delivered again
Crash(w) ==
    /\ wrk[w].pc # "idle"
    /\ failures < MaxFailures
    /\ failures' = failures + 1
    /\ queue' = [queue EXCEPT ![wrk[w].task] = @ + 1]
    /\ wrk' = [wrk EXCEPT ![w] = IdleWorker]
    /\ UNCHANGED <<meta, blobs, backend, req, resource, call>>

(* --------------------------- specification ----------------------------- *)
RequestStep(r) ==
    \/ StartExtraction(r)
    \/ CreateTask(r)
    \/ SendTask(r)
    \/ Accepted(r)

WorkerStep(w) ==
    \/ Take(w)
    \/ Load(w)
    \/ StoreFailed(w)
    \/ StorePlain(w)
    \/ StorePlainMeta(w)
    \/ StorePsv(w)
    \/ StorePsvMeta(w)
    \/ Return(w)
    \/ Raise(w)

Next ==
    \/ \E r \in Requests : RequestStep(r)
    \/ \E w \in Workers : WorkerStep(w)
    \/ \E w \in Workers : Crash(w)

Spec == Init /\ [][Next]_vars

\* The worker task on its own: 'extract' messages are on the queue (any
\* producer on the broker can publish them, and the tests call extract
\* directly) and the store holds either no record for the triple or the
\* in_progress record create_task writes.
InitExtract ==
    /\ resource \in Resources
    /\ LET t == <<resource.identifier, resource.id_type, get_version>>
           record == Extraction(t[1], t[3], t[2], datetime_now(1),
                                resource.owner, task_id(t[1], t[2], t[3]),
                                IN_PROGRESS)
       IN  /\ \E stored \in {NoExtraction, record} :
                 meta = [u \in Triples |-> IF u = t THEN stored
                                           ELSE NoExtraction]
           /\ \E n \in 1..MaxWorkers :
                 queue = [u \in Triples |-> IF u = t THEN n ELSE 0]
    /\ blobs = [t \in Triples |-> NoBlobs]
    /\ backend = [t \in Triples |-> [state |-> "PENDING", result |-> NoResult]]
    /\ req = [r \in Requests |-> IdleRequest]
    /\ wrk = [w \in Workers |-> IdleWorker]
    /\ failures = 0
    /\ call = NoCall

NextExtract ==
    \/ \E w \in Workers : WorkerStep(w)
    \/ \E w \in Workers : Crash(w)

SpecExtract == InitExtract /\ [][NextExtract]_vars

\* The service on a store that can already hold products of other extractor
\* versions for the paper: EXTRACTOR_VERSION was changed since they were made.
\* A product is a succeeded record with both content files or a failed record.
PriorTriples == ArxivIdentifiers \X {ARXIV} \X OtherVersions

PriorRecord(t, status) ==
    copy(Extraction(t[1], t[3], t[2], datetime_now(1), NULL,
                    task_id(t[1], t[2], t[3]), IN_PROGRESS),
         status, worker_now(1),
         IF status = FAILED THEN "NoContentError" ELSE NULL)

InitVersions ==
    /\ \E kept \in [PriorTriples -> {NULL, SUCCEEDED, FAILED}] :
          /\ meta = [t \in Triples \cup PriorTriples |->
                       IF t \in PriorTriples /\ kept[t] # NULL
                       THEN PriorRecord(t, kept[t]) ELSE NoExtraction]
          /\ blobs = [t \in Triples \cup PriorTriples |->
                        IF t \in PriorTriples /\ kept[t] = SUCCEEDED
                        THEN [plain |-> "FOO pDf cOntent",
                              psv |-> "foo pdf content"]
                        ELSE NoBlobs]
    /\ queue = [t \in Triples |-> 0]
    /\ backend = [t \in Triples |-> [state |-> "PENDING", result |-> NoResult]]
    /\ req = [r \in Requests |-> IdleRequest]
    /\ wrk = [w \in Workers |-> IdleWorker]
    /\ failures = 0
    /\ resource \in {res \in Resources : res.id_type = ARXIV}
    /\ call = NoCall

SpecVersions == InitVersions /\ [][Next]_vars

(* ---------------------- functions called on their own ------------------ *)
\* the system at rest while a function is called on its own
AtRest ==
    /\ meta = [t \in Triples |-> NoExtraction]
    /\ blobs = [t \in Triples |-> NoBlobs]
    /\ queue = [t \in Triples |-> 0]
    /\ backend = [t \in Triples |-> [state |-> "PENDING", result |-> NoResult]]
    /\ req = [r \in Requests |-> IdleRequest]
    /\ wrk = [w \in Workers |-> IdleWorker]
    /\ failures = 0
    /\ resource = CHOOSE res \in Resources : res.id_type = ARXIV

\* strings passed to task_id: a bucket, a version, and a string holding the
\* separator
TaskIdTexts == {"arxiv", "0.3", "arxiv::arxiv"}

\* ':' in value
HasColon(value) == value = "arxiv::arxiv"

\* task_id is called on two (identifier, id_type, version) triples
InitTaskId ==
    /\ AtRest
    /\ \E a, b \in TaskIdTexts \X TaskIdTexts \X TaskIdTexts :
          call = [fn |-> "task_id", args |-> <<a, b>>, result |-> <<>>]

CallTaskId ==
    /\ call.fn = "task_id"
    /\ call.result = <<>>
    /\ call' = [call EXCEPT !.result =
                  <<task_id(call.args[1][1], call.args[1][2], call.args[1][3]),
                    task_id(call.args[2][1], call.args[2][2], call.args[2][3])>>]
    /\ UNCHANGED <<meta, blobs, queue, backend, req, wrk, failures, resource>>

NextTaskId == CallTaskId

SpecTaskId == InitTaskId /\ [][NextTaskId]_vars

\* names of version directories: get_version's default, two extractor
\* versions, two names that are no numbers, and a hidden file
VersionNames == {"-1.0", "0.2", "0.3", "classic", "legacy", ".tmp"}

\* entries of one directory listing
MaxListing == 3

\* os.listdir: the names of a directory, each once, in any order
Listings ==
    {paths \in UNION {[1..n -> VersionNames] : n \in 1..MaxListing} :
        \A i, j \in 1..Len(paths) : paths[i] = paths[j] => i = j}

\* _latest_version is called on a directory listing
InitLatest ==
    /\ AtRest
    /\ \E paths \in Listings :
          call = [fn |-> "_latest_version", args |-> paths, result |-> <<>>]

CallLatest ==
    /\ call.fn = "_latest_version"
    /\ call.result = <<>>
    /\ call' = [call EXCEPT !.result = <<LatestOf(call.args)>>]
    /\ UNCHANGED <<meta, blobs, queue, backend, req, wrk, failures, resource>>

NextLatest == CallLatest

SpecLatest == InitLatest /\ [][NextLatest]_vars

\* the triple Storage.store is called for on its own
StoreTriple == <<"2102.00123", ARXIV, EXTRACTOR_VERSION>>

\* the records passed to Storage.store: in progress, succeeded and failed
StoreRecords ==
    LET fresh == Extraction(StoreTriple[1], StoreTriple[3], StoreTriple[2],
                            datetime_now(1), NULL,
                            task_id(StoreTriple[1], StoreTriple[2],
                                    StoreTriple[3]),
                            IN_PROGRESS)
    IN  {fresh,
         copy(fresh, SUCCEEDED, worker_now(1), NULL),
         copy(fresh, FAILED, worker_now(1), "NoContentError")}

\* Storage.store(extraction, content_fmt) is called on a store that holds
\* nothing for the triple, or a record, with or without a plain blob
InitStore ==
    /\ \E stored \in {NoExtraction} \cup StoreRecords,
          plain \in {NULL, "old text"} :
          /\ meta = [t \in Triples |-> IF t = StoreTriple THEN stored
                                        ELSE NoExtraction]
          /\ blobs = [t \in Triples |->
                        IF t = StoreTriple /\ stored.present
                        THEN [NoBlobs EXCEPT !.plain = plain]
                        ELSE NoBlobs]
    /\ queue = [t \in Triples |-> 0]
    /\ backend = [t \in Triples |-> [state |-> "PENDING", result |-> NoResult]]
    /\ req = [r \in Requests |-> IdleRequest]
    /\ wrk = [w \in Workers |-> IdleWorker]
    /\ failures = 0
    /\ resource = CHOOSE res \in Resources : res.id_type = ARXIV
    /\ \E extraction \in StoreRecords, content \in Contents \cup {NULL},
          content_fmt \in {NULL, "plain", "psv"} :
          call = [fn |-> "store",
                  args |-> [extraction |-> extraction, content |-> content,
                            content_fmt |-> content_fmt],
                  result |-> <<>>]

\* Storage.store: the blob when there is one to write, then meta.json;
\* either write can fail with StorageFailed
CallStore ==
    /\ call.fn = "store"
    /\ call.result = <<>>
    /\ LET a == call.args
           written == StoredBlobs(blobs[StoreTriple], a.content_fmt, a.content)
       IN  \/ /\ blobs' = [blobs EXCEPT ![StoreTriple] = written]
              /\ meta' = [meta EXCEPT ![StoreTriple] = a.extraction]
              /\ call' = [call EXCEPT !.result = <<"None">>]
              /\ UNCHANGED failures
           \/ \* the blob write fails
              /\ a.content_fmt # NULL /\ a.content # NULL
              /\ failures < MaxFailures
              /\ failures' = failures + 1
              /\ call' = [call EXCEPT !.result = <<"StorageFailed">>]
              /\ UNCHANGED <<meta, blobs>>
           \/ \* the metadata write fails
              /\ failures < MaxFailures
              /\ failures' = failures + 1
              /\ blobs' = [blobs EXCEPT ![StoreTriple] = written]
              /\ call' = [call EXCEPT !.result = <<"StorageFailed">>]
              /\ UNCHANGED meta
    /\ UNCHANGED <<queue, backend, req, wrk, resource>>

NextStore == CallStore

SpecStore == InitStore /\ [][NextStore]_vars

\* the extractor versions one paper has directories for
StoredVersions == {"0.2", "0.3"}

RetrieveTriples == {"2102.00123"} \X {ARXIV} \X StoredVersions

\* the records one triple can hold: in progress, succeeded and failed
RecordsFor(t) ==
    LET fresh == Extraction(t[1], t[3], t[2], datetime_now(1), NULL,
                            task_id(t[1], t[2], t[3]), IN_PROGRESS)
    IN  {fresh,
         copy(fresh, SUCCEEDED, worker_now(1), NULL),
         copy(fresh, FAILED, worker_now(2), "NoContentError")}

\* os.listdir of the paper's path in the store retrieve is called on
StoredDirs ==
    {v \in StoredVersions :
        \E t \in RetrieveTriples :
            t[3] = v /\ (meta[t].present \/ blobs[t] # NoBlobs)}

\* the versions Storage.retrieve can read for the version asked for: that
\* version, or for None what _latest_version makes of a listing
ResolvedVersions(version) ==
    IF version # NULL
    THEN {version}
    ELSE {LatestOf(paths) : paths \in
            {l \in Listings : {l[i] : i \in 1..Len(l)} = StoredDirs}}

\* what Storage.retrieve(identifier, version, content_fmt, bucket,
\* meta_only) can give on the store as it is
RetrieveResults(a) ==
    IF ResolvedVersions(a.version) = {}
    THEN {Retrieved("DoesNotExist", NoExtraction, NULL)}
    ELSE {retrieve(meta, blobs, <<"2102.00123", ARXIV, v>>, a.content_fmt,
                   a.meta_only) : v \in ResolvedVersions(a.version)}

\* stores of a retrieved record in one behaviour
MaxStores == 2

\* Storage.retrieve is called on a store that holds, for each version, a
\* record or none and each content file or not
InitRetrieve ==
    /\ meta \in [RetrieveTriples ->
                    {NoExtraction} \cup UNION {RecordsFor(t) :
                                                  t \in RetrieveTriples}]
    /\ \A t \in RetrieveTriples : meta[t].present => meta[t] \in RecordsFor(t)
    /\ blobs \in [RetrieveTriples ->
                     [plain : {NULL, "FOO pDf cOntent"},
                      psv : {NULL, "foo pdf content"}]]
    /\ queue = [t \in Triples |-> 0]
    /\ backend = [t \in Triples |-> [state |-> "PENDING", result |-> NoResult]]
    /\ req = [r \in Requests |-> IdleRequest]
    /\ wrk = [w \in Workers |-> IdleWorker]
    /\ failures = 0
    /\ resource = CHOOSE res \in Resources : res.id_type = ARXIV
    /\ \E version \in StoredVersions \cup {NULL},
          content_fmt \in {"plain", "psv"}, meta_only \in BOOLEAN :
          call = [fn |-> "retrieve",
                  args |-> [version |-> version, content_fmt |-> content_fmt,
                            meta_only |-> meta_only],
                  result |-> <<>>, stores |-> 0]

CallRetrieve ==
    /\ call.fn = "retrieve"
    /\ call.result = <<>>
    /\ \E r \in RetrieveResults(call.args) :
          call' = [call EXCEPT !.result = <<r>>]
    /\ UNCHANGED <<meta, blobs, queue, backend, req, wrk, failures, resource>>

\* Storage.store(extraction, content_fmt) of the record retrieve returned:
\* meta.json is dumped from to_dict and read back by retrieve
StoreRetrieved ==
    /\ call.fn = "retrieve"
    /\ call.result # <<>>
    /\ call.result[1].error = NULL
    /\ call.stores < MaxStores
    /\ \E content_fmt \in {NULL, "plain", "psv"} :
          LET x == call.result[1].extraction
              t == <<x.identifier, x.bucket, x.version>>
          IN  /\ meta' = [meta EXCEPT ![t] = load_meta(to_dict(x))]
              /\ blobs' = [blobs EXCEPT ![t] =
                             StoredBlobs(@, content_fmt,
                                         call.result[1].content)]
    /\ call' = [call EXCEPT !.stores = @ + 1]
    /\ UNCHANGED <<queue, backend, req, wrk, failures, resource>>

NextRetrieve == CallRetrieve \/ StoreRetrieved

SpecRetrieve == InitRetrieve /\ [][NextRetrieve]_vars

\* what the upstream can answer to GET /pdf/{identifier}: the status code,
\* the Content-Type and the body
PdfResponses ==
    {[status_code |-> 200, content_type |-> "application/pdf",
      content |-> "%PDF foo"],
     [status_code |-> 200, content_type |-> "text/html",
      content |-> "<html>foo</html>"],
     [status_code |-> 200, content_type |-> "text/html; charset=utf-8",
      content |-> "<html>foo</html>"],
     [status_code |-> 404, content_type |-> "text/html",
      content |-> "<html>not found</html>"],
     [status_code |-> 500, content_type |-> "text/html",
      content |-> "<html>error</html>"]}

\* how RetrievePDFSession.retrieve ends: the exception it raises, or the
\* content of the PDF file it wrote
PdfResult(raised, content) == [raised |-> raised, content |-> content]

\* RetrievePDFSession.retrieve(target, document_id, sleep) is called with a
\* URL inside or outside the whitelist
InitPdf ==
    /\ AtRest
    /\ \E target \in {"https://arxiv.org/pdf/2102.00123",
                       "https://example.org/pdf/2102.00123"},
          sleep \in {0, 5} :
          call = [fn |-> "pdf.retrieve",
                  args |-> [target |-> target, sleep |-> sleep],
                  pc |-> "get", retries |-> 0, responses |-> <<>>,
                  slept |-> 0, result |-> <<>>]

\* is_valid_url for the whitelist arxiv.org, export.arxiv.org
is_valid_url(url) == url = "https://arxiv.org/pdf/2102.00123"

\* the status checks on a response, then the Content-Type test: first is
\* true for the initial GET, whose 404 is DoesNotExist
PdfAfterGet(c, response, first) ==
    LET got == [c EXCEPT !.responses = Append(@, response)]
    IN  IF first /\ response.status_code = 404
        THEN [got EXCEPT !.pc = "done",
                         !.result = <<PdfResult("DoesNotExist", NULL)>>]
        ELSE IF response.status_code # 200
        THEN [got EXCEPT !.pc = "done",
                         !.result = <<PdfResult("IOError", NULL)>>]
        ELSE IF response.content_type # "application/pdf"
        THEN [got EXCEPT !.pc = "loop",
                         !.retries = IF first THEN 5 ELSE @]
        ELSE [got EXCEPT !.pc = "done",
                         !.result = <<PdfResult(NULL, response.content)>>]

\* the URL check and the initial GET
PdfGet ==
    /\ call.fn = "pdf.retrieve"
    /\ call.pc = "get"
    /\ IF ~is_valid_url(call.args.target)
       THEN call' = [call EXCEPT !.pc = "done",
                                 !.result = <<PdfResult("InvalidURL", NULL)>>]
       ELSE \E response \in PdfResponses :
               call' = PdfAfterGet(call, response, TRUE)
    /\ UNCHANGED <<meta, blobs, queue, backend, req, wrk, failures, resource>>

\* one turn of the retry loop that gives up only below zero retries
PdfRetry_OneMore ==
    /\ call.fn = "pdf.retrieve"
    /\ call.pc = "loop"
    /\ IF call.retries < 0
       THEN call' = [call EXCEPT !.pc = "done",
                                 !.result = <<PdfResult("IOError", NULL)>>]
       ELSE \E response \in PdfResponses :
               call' = PdfAfterGet([call EXCEPT
                                      !.slept = @ + call.args.sleep,
                                      !.retries = @ - 1],
                                   response, FALSE)
    /\ UNCHANGED <<meta, blobs, queue, backend, req, wrk, failures, resource>>

\* one turn of the retry loop: give up without retries left, else sleep,
\* count down and GET again
PdfRetry ==
    /\ call.fn = "pdf.retrieve"
    /\ call.pc = "loop"
    /\ IF call.retries < 1
       THEN call' = [call EXCEPT !.pc = "done",
                                 !.result = <<PdfResult("IOError", NULL)>>]
       ELSE \E response \in PdfResponses :
               call' = PdfAfterGet([call EXCEPT
                                      !.slept = @ + call.args.sleep,
                                      !.retries = @ - 1],
                                   response, FALSE)
    /\ UNCHANGED <<meta, blobs, queue, backend, req, wrk, failures, resource>>

NextPdf == PdfGet \/ PdfRetry

SpecPdf == InitPdf /\ [][NextPdf]_vars

\* The files of one extraction in WORKDIR: the PDF, {stub}.txt (NULL: no
\* file, "": a file of zero bytes) and {stub}.pdf2txt
NoFiles == [pdf |-> FALSE, txt |-> NULL, pdf2txt |-> FALSE]

\* what the sandbox can leave in {stub}.txt
Outputs == {NULL, "", "hello world"}

\* how do_extraction ends: the exception it raises, or the text it returns
Extracted(raised, content) == [raised |-> raised, content |-> content]

\* do_extraction(filename, cleanup, image) is called for a PDF outside
\* WORKDIR, or for one that lies in WORKDIR already
InitExtractor ==
    /\ AtRest
    /\ \E filename \in {"/tmp/arxiv-2102.00123.pdf",
                         "/tmp/submission-12345.pdf",
                         "WORKDIR/arxiv-2102.00123.pdf"},
          cleanup \in BOOLEAN, image \in {NULL, "arxiv/fooextractor:5.6.7"} :
          call = [fn |-> "do_extraction",
                  args |-> [filename |-> filename, cleanup |-> cleanup,
                            image |-> image],
                  pc |-> "copy", copied |-> FALSE,
                  workdir |-> [NoFiles EXCEPT
                                 !.pdf = filename = "WORKDIR/arxiv-2102.00123.pdf"],
                  produced |-> NULL, result |-> <<>>]

ExtractorStep(pc) ==
    /\ call.fn = "do_extraction"
    /\ call.pc = pc
    /\ UNCHANGED <<meta, blobs, queue, backend, req, wrk, failures, resource>>

Raised(c, exception) ==
    [c EXCEPT !.pc = "done", !.result = <<Extracted(exception, NULL)>>]

\* shutil.copyfile(filename, pdfpath), which refuses to copy a file onto
\* itself
CopyPdf ==
    /\ ExtractorStep("copy")
    /\ IF call.workdir.pdf
       THEN call' = Raised(call, "SameFileError")
       ELSE call' = [call EXCEPT !.pc = "pull", !.copied = TRUE,
                                 !.workdir.pdf = TRUE]

\* _pull_image: APIError becomes RuntimeError
PullImage ==
    /\ ExtractorStep("pull")
    /\ \/ call' = [call EXCEPT !.pc = "run"]
       \/ call' = Raised(call, "RuntimeError")

\* client.containers.run: the sandbox leaves what it leaves in WORKDIR and
\* ends well or with ContainerError / APIError, which becomes RuntimeError
RunContainer ==
    /\ ExtractorStep("run")
    /\ \E txt \in Outputs, pdf2txt \in BOOLEAN, ok \in BOOLEAN :
          LET ran == [call EXCEPT !.workdir.txt = txt,
                                  !.workdir.pdf2txt = pdf2txt,
                                  !.produced = txt]
          IN  call' = IF ok THEN [ran EXCEPT !.pc = "output"]
                      ELSE Raised(ran, "RuntimeError")

\* Extractor._cleanup: os.remove of the PDF, of {stub}.pdf2txt and of
\* {stub}.txt in this order; os.remove raises FileNotFoundError for a file
\* that is not there, which ends the clean-up and leaves __call__
_cleanup(c) ==
    IF ~c.workdir.pdf2txt
    THEN Raised([c EXCEPT !.workdir.pdf = FALSE], "FileNotFoundError")
    ELSE [c EXCEPT !.workdir = NoFiles]

\* the output file is looked for, read and decoded; then _cleanup, and the
\* text is returned
ReadOutput ==
    /\ ExtractorStep("output")
    /\ IF call.workdir.txt = NULL
       THEN call' = Raised(call, "FileNotFoundError")
       ELSE LET cleaned == _cleanup(call)
            IN  call' = IF cleaned.result # <<>>
                        THEN cleaned
                        ELSE [cleaned EXCEPT
                                !.pc = "done",
                                !.result = <<Extracted(NULL, call.workdir.txt)>>]

NextExtractor == CopyPdf \/ PullImage \/ RunContainer \/ ReadOutput

SpecExtractor == InitExtractor /\ [][NextExtractor]_vars

\* what the result backend can hold for the task id of t: a state without
\* result, FAILURE with the exception that left extract, SUCCESS with the
\* dict extract returned
BackendEntries(t) ==
    {[state |-> state, result |-> NoResult] :
        state \in {"PENDING", "SENT", "STARTED", "RETRY", "RECEIVED",
                   "REVOKED"}}
    \cup {[state |-> "FAILURE", result |-> ExceptionResult(e)] :
             e \in Errors \cup {"StorageFailed", "DoesNotExist"}}
    \cup {[state |-> "SUCCESS",
           result |-> [kind |-> "dict", owner |-> owner, exception |-> NULL]] :
             owner \in IF t[2] = SUBMISSION THEN Owners \cup {NULL}
                       ELSE {NULL}}

\* get_task is called for a triple with the backend in any state
InitGetTask ==
    /\ meta = [t \in Triples |-> NoExtraction]
    /\ blobs = [t \in Triples |-> NoBlobs]
    /\ queue = [t \in Triples |-> 0]
    /\ backend \in [Triples -> UNION {BackendEntries(t) : t \in Triples}]
    /\ \A t \in Triples : backend[t] \in BackendEntries(t)
    /\ req = [r \in Requests |-> IdleRequest]
    /\ wrk = [w \in Workers |-> IdleWorker]
    /\ failures = 0
    /\ resource = CHOOSE res \in Resources : res.id_type = ARXIV
    /\ \E t \in Triples :
          call = [fn |-> "get_task", args |-> t, result |-> <<>>]

CallGetTask ==
    /\ call.fn = "get_task"
    /\ call.result = <<>>
    /\ call' = [call EXCEPT !.result =
                  <<get_task(call.args[1], call.args[2], call.args[3])>>]
    /\ UNCHANGED <<meta, blobs, queue, backend, req, wrk, failures, resource>>

NextGetTask == CallGetTask

SpecGetTask == InitGetTask /\ [][NextGetTask]_vars

\* Paths below the storage volume, as the sequences of their components.
\* _paper_path for an identifier that is no arXiv id: {volume}/{bucket}/
\* {identifier}
_paper_path(identifier, bucket) == <<bucket, identifier>>

\* os.path.join(path, name)
join(path, name) == Append(path, name)

IsPrefix(p, q) == Len(p) <= Len(q) /\ SubSeq(q, 1, Len(p)) = p

\* shutil.rmtree(path): the directory and everything below it are gone
rmtree(fs, path) == {q \in fs : ~IsPrefix(path, q)}

\* os.makedirs(path): the path and its missing ancestors
makedirs(fs, path) == fs \cup {SubSeq(path, 1, n) : n \in 1..Len(path)}

\* what a volume in use holds: extractions, and the directory an earlier
\* is_available call made
VolumeContents ==
    {fs \in SUBSET {<<"arxiv">>, <<"arxiv", "2102">>, <<"submission">>,
                    <<"test-0">>} :
        <<"arxiv", "2102">> \in fs => <<"arxiv">> \in fs}

\* Storage.is_available is called at a time with timestamp 1 or 2
InitAvailable ==
    /\ AtRest
    /\ \E fs \in VolumeContents, test_name \in {"test-1", "test-2"} :
          call = [fn |-> "is_available", test_name |-> test_name,
                  pc |-> "make_paths", found |-> fs, fs |-> fs,
                  failed |-> NULL, result |-> <<>>]

AvailableStep(pc) ==
    /\ call.fn = "is_available"
    /\ call.pc = pc
    /\ UNCHANGED <<meta, blobs, queue, backend, req, wrk, failures, resource>>

\* _store: make_paths creates the directories of the test path, all of
\* them, or none or only the first when os.makedirs fails
MakePaths ==
    /\ AvailableStep("make_paths")
    /\ LET test_paper_path == _paper_path("test", call.test_name)
       IN  \/ call' = [call EXCEPT !.pc = "write",
                                   !.fs = makedirs(@, test_paper_path)]
           \/ \E n \in 0..(Len(test_paper_path) - 1) :
                 call' = [call EXCEPT
                            !.pc = "done", !.failed = "makedirs",
                            !.fs = IF n = 0 THEN @
                                   ELSE makedirs(@, SubSeq(test_paper_path, 1, n)),
                            !.result = <<"False">>]

\* _store: open(path, 'w') and write; StorageFailed makes is_available
\* return False
WriteTest ==
    /\ AvailableStep("write")
    /\ LET test_path == join(_paper_path("test", call.test_name),
                             call.test_name)
       IN  \/ call' = [call EXCEPT !.pc = "rmtree",
                                   !.fs = @ \cup {test_path}]
           \/ call' = [call EXCEPT !.pc = "done", !.failed = "open",
                                   !.result = <<"False">>]

\* shutil.rmtree(test_paper_path), then return True
RemoveTest ==
    /\ AvailableStep("rmtree")
    /\ call' = [call EXCEPT
                  !.pc = "done",
                  !.fs = rmtree(@, _paper_path("test", call.test_name)),
                  !.result = <<"True">>]

NextAvailable == MakePaths \/ WriteTest \/ RemoveTest

SpecAvailable == InitAvailable /\ [][NextAvailable]_vars

\* lines of an extracted text: body text, two headings of a reference
\* section, a line that only mentions references, and a reference
Lines ==
    {"Introduction", "References", "7. BIBLIOGRAPHY:", "see references above",
     "[1] A. Author, Title"}

\* regex_refsection.match(line):
\* ^[^a-zA-Z]*(Reference[s]?|Bibliography)[\W]*$, ignoring case
regex_refsection(line) == line \in {"References", "7. BIBLIOGRAPHY:"}

\* lines in a text
MaxLines == 4

\* split_on_references taking the first heading as the start of the references
split_on_references_FirstHeading(lines) ==
    LET line_num == Len(lines)
        matching == {i \in 1..line_num : regex_refsection(lines[i])}
        found == IF matching = {} THEN 0
                 ELSE CHOOSE i \in matching : \A j \in matching : i <= j
        last_refs == IF line_num > 0 /\ 2 * (line_num - found) > line_num
                     THEN line_num + 1 ELSE found
    IN  IF last_refs > 0
        THEN <<SubSeq(lines, 1, last_refs - 1),
               SubSeq(lines, last_refs, line_num)>>
        ELSE <<lines, <<>>>>

\* split_on_references(lines) with max_refs_fraction = 0.5.  found is
\* last_refs after the first loop, the number of the last matching line or 0;
\* refs_fraction = 1.0 - last_refs / line_num exceeds 0.5 exactly when
\* 2 * (line_num - last_refs) > line_num.  The second loop puts the lines
\* from number last_refs on into ref when last_refs > 0.
split_on_references(lines) ==
    LET line_num == Len(lines)
        matching == {i \in 1..line_num : regex_refsection(lines[i])}
        found == IF matching = {} THEN 0
                 ELSE CHOOSE i \in matching : \A j \in matching : j <= i
        last_refs == IF line_num > 0 /\ 2 * (line_num - found) > line_num
                     THEN line_num + 1 ELSE found
    IN  IF last_refs > 0
        THEN <<SubSeq(lines, 1, last_refs - 1),
               SubSeq(lines, last_refs, line_num)>>
        ELSE <<lines, <<>>>>

\* split_on_references is called on a list of lines
InitSplit ==
    /\ AtRest
    /\ \E lines \in UNION {[1..n -> Lines] : n \in 0..MaxLines} :
          call = [fn |-> "split_on_references", args |-> lines,
                  result |-> <<>>]

CallSplit ==
    /\ call.fn = "split_on_references"
    /\ call.result = <<>>
    /\ call' = [call EXCEPT !.result = <<split_on_references(call.args)>>]
    /\ UNCHANGED <<meta, blobs, queue, backend, req, wrk, failures, resource>>

NextSplit == CallSplit

SpecSplit == InitSplit /\ [][NextSplit]_vars

(* ----------------------------- properties ------------------------------ *)
\* history read off the requests: the 'extract' messages published for t
Published(t) ==
    Cardinality({r \in Requests :
        /\ <<req[r].identifier, req[r].id_type, get_version>> = t
        /\ req[r].pc = "sent" \/ req[r].code = 202})

Running(t) == {w \in Workers : wrk[w].pc # "idle" /\ wrk[w].task = t}

TaskVisible(t) ==
    \/ queue[t] > 0
    \/ Running(t) # {}
    \/ backend[t].state \in {"SENT", "STARTED"}

\* C1: create_task writes the in_progress record before it publishes the
\* task, so no task is on the queue, held by a worker or known to the backend
\* as SENT/STARTED while the store holds no metadata record for its triple.
C1_RecordBeforeTask ==
    /\ \A t \in Triples : TaskVisible(t) => meta[t].present
    /\ \A r \in Requests : req[r].pc \in {"publish", "sent"}
                              => meta[ReqTriple(r)].present

C1_Witness ==
    \E t \in Triples :
        /\ queue[t] > 0
        /\ backend[t].state = "PENDING"
        /\ meta[t].present /\ meta[t].status = IN_PROGRESS

\* C2: however start_extraction requests with force = false interleave, at
\* most one 'extract' message is ever published for a triple.
C2_AtMostOneTask ==
    (\A r \in Requests : ~req[r].force)
        => \A t \in Triples : Published(t) <= 1

\* the step of request r from its arrival to its first access to the store,
\* for a request that passed the checks before it
Arrives(r) ==
    /\ req[r].pc = "idle"
    /\ req'[r].pc # "idle"
    /\ req'[r].id_type \in SupportedBuckets

\* the records storage.retrieve(identifier, bucket=id_type, meta_only=True)
\* can hand to that step
Products(r) ==
    {meta[<<req'[r].identifier, req'[r].id_type, v>>] :
        v \in _latest_version(req'[r].identifier, req'[r].id_type)}
    \ {NoExtraction}

StoreAndQueueUntouched ==
    /\ meta' = meta
    /\ blobs' = blobs
    /\ queue' = queue
    /\ backend' = backend

C4_RedirectTarget ==
    [][\A r \in Requests :
          Arrives(r) /\ ~req'[r].force /\ req'[r].code = 303
              => \E p \in Products(r) :
                    req'[r].location =
                        url_for(IF p.status = IN_PROGRESS
                                THEN "fulltext.task_status"
                                ELSE "fulltext.retrieve",
                                p.identifier, p.bucket)]_vars

\* the step in which request r returns 202
Returns202(r) == req[r].pc = "sent" /\ req'[r].pc = "done"

StatusLocation(r) ==
    url_for("fulltext.task_status", req[r].identifier, req[r].id_type)

\* C5 (as stated): when a forced start_extraction on a terminal record
\* returns, it returns 202 with the status Location and the stored record is
\* in_progress with ended and exception null.
C5_Original ==
    [][\A r \in Requests :
          Returns202(r) /\ req[r].terminal
              => /\ req'[r].code = 202
                 /\ req'[r].location = StatusLocation(r)
                 /\ meta'[ReqTriple(r)].status = IN_PROGRESS
                 /\ meta'[ReqTriple(r)].ended = NoTime
                 /\ meta'[ReqTriple(r)].exception = NULL]_vars

\* C5 (amended): a forced start_extraction on a terminal record overwrites it
\* with an in_progress record (ended and exception null, the same task_id),
\* then publishes a task for the triple, then returns 202 with the status
\* Location; the record is in_progress right after the write, and a worker
\* may have finished it again before the request returns.
C5_ForcedResubmit ==
    [][\A r \in Requests :
          /\ Arrives(r) /\ req'[r].terminal
                => LET t == <<req'[r].identifier, req'[r].id_type, get_version>>
                   IN  /\ req'[r].pc = "publish"
                       /\ meta'[t].status = IN_PROGRESS
                       /\ meta'[t].ended = NoTime
                       /\ meta'[t].exception = NULL
                       /\ meta'[t].task_id = meta[t].task_id
                       /\ meta'[t].task_id =
                              task_id(t[1], t[2], t[3])
          /\ req[r].terminal /\ req[r].pc = "publish" /\ req'[r].pc = "sent"
                => queue'[ReqTriple(r)] = queue[ReqTriple(r)] + 1
          /\ Returns202(r) /\ req[r].terminal
                => /\ req'[r].code = 202
                   /\ req'[r].location = StatusLocation(r)]_vars

C5_Witness ==
    \E r \in Requests :
        /\ req[r].pc = "sent" /\ req[r].force /\ req[r].terminal
        /\ completed(meta[ReqTriple(r)])

Fields(extraction) ==
    <<extraction.status, extraction.started, extraction.ended,
      extraction.owner, extraction.task_id, extraction.exception>>

\* C6 (as stated): once a stored record is succeeded or failed, no step
\* changes its status, started, ended, owner, task_id or exception.
C6_Original ==
    [][\A t \in Triples :
          completed(meta[t]) => Fields(meta'[t]) = Fields(meta[t])]_vars

\* create_task's pre-emptive write for t by request r
CreateTaskWrites(r, t) ==
    /\ req'[r].pc = "publish"
    /\ <<req'[r].identifier, req'[r].id_type, get_version>> = t
    /\ \/ req[r].pc = "idle" /\ req'[r].force
       \/ req[r].pc = "store"

\* a metadata write of worker w running the task of t
WorkerWrites(w, t) ==
    /\ wrk[w].task = t
    /\ wrk[w].pc \in {"failed", "plain_meta", "psv_meta"}
    /\ wrk'[w].pc # wrk[w].pc

\* C6 (amended): a non-forced submit that finds a terminal record returns
\* without changing it; the fields of a terminal record are changed only by
\* create_task's pre-emptive write (a forced submit, or a non-forced submit
\* whose check ran before the record existed) and by the metadata writes of
\* a worker run.
C6_TerminalChangedOnlyBy ==
    [][/\ \A t \in Triples :
             completed(meta[t]) /\ Fields(meta'[t]) # Fields(meta[t])
                 => \/ \E r \in Requests : CreateTaskWrites(r, t)
                    \/ \E w \in Workers : WorkerWrites(w, t)
       /\ \A r \in Requests :
             (/\ Arrives(r) /\ ~req'[r].force
              /\ \E p \in Products(r) : completed(p))
                 => req'[r].pc = "done" /\ meta' = meta]_vars

C6_Witness ==
    \E r \in Requests :
        /\ req[r].pc = "publish" /\ req[r].terminal
        /\ meta[ReqTriple(r)].status = IN_PROGRESS
        /\ blobs[ReqTriple(r)].plain # NULL

\* C7: every extraction whose create_task returned has a terminal record
\* once its task has been delivered and run to its end: when no request is
\* under way, none failed, no message is undelivered and no worker is busy,
\* no record is in_progress.
C7_NoneLeftInProgress ==
    (/\ \A r \in Requests : req[r].pc \in {"idle", "done"} /\ req[r].code # 500
     /\ \A t \in Triples : queue[t] = 0
     /\ \A w \in Workers : wrk[w].pc = "idle")
        => \A t \in Triples : meta[t].present => completed(meta[t])

\* the step in which the exception held by worker w leaves extract
Raises(w) ==
    /\ wrk[w].pc = "raise"
    /\ wrk'[w].pc = "idle"
    /\ failures' = failures

\* C8: when PDF retrieval or the sandbox raises, the worker stores the record
\* as failed with ended set and the exception's text, in its one call of
\* store, writes no blob, and re-raises the same exception, so that the
\* backend records FAILURE with it.
C8_FailureRecorded ==
    [][\A w \in Workers :
          LET t == wrk[w].task
          IN  /\ wrk[w].pc = "load" /\ wrk'[w].pc = "failed"
                    => /\ wrk'[w].exc \in Errors
                       /\ wrk'[w].stores = 0
                       /\ blobs' = blobs
              /\ wrk[w].pc = "failed" /\ wrk'[w].pc = "raise"
                 /\ failures' = failures
                    => /\ meta'[t].status = FAILED
                       /\ meta'[t].ended # NoTime
                       /\ meta'[t].exception = wrk[w].exc
                       /\ blobs' = blobs
                       /\ wrk'[w].exc = wrk[w].exc
                       /\ wrk'[w].stores = 1
              /\ Raises(w) /\ wrk[w].exc \in Errors
                    => /\ backend'[t].state = "FAILURE"
                       /\ backend'[t].result = ExceptionResult(wrk[w].exc)
                       /\ meta' = meta /\ blobs' = blobs]_vars

C8_Witness ==
    \E w \in Workers :
        /\ wrk[w].pc = "raise" /\ wrk[w].exc \in Errors
        /\ wrk[w].stores = 1
        /\ meta[wrk[w].task].status = FAILED
        /\ meta[wrk[w].task].exception = wrk[w].exc
        /\ blobs[wrk[w].task] = NoBlobs

\* the step in which the PSV step of worker w fails
PsvFails(w) ==
    /\ wrk[w].pc \in {"psv", "psv_meta"}
    /\ wrk'[w].pc = "raise"

\* C9: a failure to compute the PSV text or to write the psv blob, after the
\* plain text was stored, leaves the stored record as it is: its status
\* remains succeeded.
C9_PsvFailureKeepsRecord ==
    [][\A w \in Workers :
          /\ PsvFails(w) => meta' = meta
          /\ Raises(w) /\ wrk[w].exc \in {"PsvError", "StorageFailed"}
                => meta' = meta]_vars

C9_Witness ==
    \E w \in Workers :
        /\ wrk[w].pc = "raise" /\ wrk[w].exc = "PsvError"
        /\ meta[wrk[w].task].status = SUCCEEDED
        /\ blobs[wrk[w].task].plain # NULL

\* C10: a failure of the PSV step is logged only: the task returns its result
\* and the backend records SUCCESS for its task id.
C10_PsvFailureIsSuccess ==
    [][\A w \in Workers :
          Raises(w) /\ wrk[w].exc = "PsvError"
              => backend'[wrk[w].task].state = "SUCCESS"]_vars

\* the step in which worker w, started without a stored record, fails to
\* load it
LoadsNothing(w) ==
    /\ wrk[w].pc = "load"
    /\ ~meta[wrk[w].task].present
    /\ wrk'[w].pc # "load"
    /\ failures' = failures

\* C11 (as stated): a worker task that starts without a stored record fails
\* with the no-such-task error and writes nothing to the store.
C11_Original ==
    [][\A w \in Workers :
          /\ LoadsNothing(w)
                => /\ wrk'[w].pc = "raise" /\ wrk'[w].exc = "NoSuchTask"
                   /\ meta' = meta /\ blobs' = blobs
          /\ Raises(w) /\ wrk[w].stores = 0 /\ ~meta[wrk[w].task].present
                => /\ backend'[wrk[w].task].result =
                          ExceptionResult("NoSuchTask")
                   /\ meta' = meta /\ blobs' = blobs]_vars

\* C11 (amended): a worker task that starts without a stored record fails
\* with the store's DoesNotExist error, which the backend records as the
\* task's FAILURE, and writes nothing to the store.
C11_MissingRecord ==
    [][\A w \in Workers :
          /\ LoadsNothing(w)
                => /\ wrk'[w].pc = "raise" /\ wrk'[w].exc = "DoesNotExist"
                   /\ wrk'[w].stores = 0
                   /\ meta' = meta /\ blobs' = blobs
          /\ Raises(w) /\ wrk[w].exc = "DoesNotExist"
                => /\ backend'[wrk[w].task] =
                          [state |-> "FAILURE",
                           result |-> ExceptionResult("DoesNotExist")]
                   /\ meta' = meta /\ blobs' = blobs]_vars

C11_Witness ==
    \E w \in Workers :
        /\ wrk[w].pc = "raise" /\ wrk[w].exc = "DoesNotExist"
        /\ ~meta[wrk[w].task].present
        /\ blobs[wrk[w].task] = NoBlobs

\* C12: in every state of the store, between any two file writes, a triple
\* with a plain or psv blob has a meta.json record.
C12_BlobHasRecord ==
    \A t \in Triples : blobs[t] # NoBlobs => meta[t].present

C12_Witness ==
    \E w \in Workers :
        /\ wrk[w].pc = "plain_meta"
        /\ blobs[wrk[w].task].plain # NULL
        /\ meta[wrk[w].task].status = IN_PROGRESS

\* C13: every stored metadata record has ended non-null if and only if its
\* status is succeeded or failed.
C13_EndedIffTerminal ==
    \A t \in Triples :
        meta[t].present => (meta[t].ended # NoTime <=> completed(meta[t]))

C13_Witness ==
    \E t \in Triples :
        /\ meta[t].status = SUCCEEDED /\ meta[t].ended # NoTime
        /\ \E r \in Requests : req[r].pc = "done" /\ req[r].code = 202

\* C14: every stored metadata record has exception non-null if and only if
\* its status is failed.
C14_ExceptionIffFailed ==
    \A t \in Triples :
        meta[t].present
            => (meta[t].exception # NULL <=> meta[t].status = FAILED)

\* C15: every stored metadata record of bucket arxiv has owner null.
C15_ArxivHasNoOwner ==
    \A t \in Triples :
        meta[t].present /\ meta[t].bucket = ARXIV => meta[t].owner = NULL

C15_Witness ==
    \E t \in Triples :
        /\ meta[t].present /\ meta[t].bucket = ARXIV
        /\ meta[t].status = SUCCEEDED
        /\ meta[t].owner = NULL

\* C16: every stored metadata record of bucket submission has a non-null
\* owner, with or without an ARXIV-OWNER header from the preview service.
C16_SubmissionHasOwner ==
    \A t \in Triples :
        meta[t].present /\ meta[t].bucket = SUBMISSION
            => meta[t].owner # NULL

TaskIdCalled == call.fn = "task_id" /\ call.result # <<>>

\* C17 (as stated): task_id is a function of its arguments, and two different
\* triples of strings get different task ids.
C17_Original ==
    TaskIdCalled
        => /\ call.args[1] = call.args[2] => call.result[1] = call.result[2]
           /\ call.args[1] # call.args[2] => call.result[1] # call.result[2]

\* C17 (amended): task_id is a function of its arguments, and two different
\* triples get different task ids when no component of either holds a ':'.
C17_TaskIdInjective ==
    TaskIdCalled
        => /\ call.args[1] = call.args[2] => call.result[1] = call.result[2]
           /\ (/\ call.args[1] # call.args[2]
               /\ \A i \in 1..2, j \in 1..3 : ~HasColon(call.args[i][j]))
                 => call.result[1] # call.result[2]

C17_Witness ==
    /\ TaskIdCalled
    /\ call.args[1] = <<"0.3", "arxiv", "0.3">>
    /\ call.args[2] = <<"arxiv", "arxiv", "0.3">>
    /\ call.result = <<"arxiv::0.3::0.3", "arxiv::arxiv::0.3">>

\* float(value) succeeds
IsFloat(value) == value \in {"-1.0", "0.2", "0.3"}

\* the names in ascending lexicographic order
LexOrder == <<"-1.0", ".tmp", "0.2", "0.3", "classic", "legacy">>

LexRank(value) == CHOOSE i \in 1..Len(LexOrder) : LexOrder[i] = value

\* the names of the listing that do not begin with '.'
Visible == {call.args[i] : i \in 1..Len(call.args)} \ {".tmp"}

LatestCalled ==
    /\ call.fn = "_latest_version" /\ call.result # <<>>
    /\ Visible # {}

\* C18: for a non-empty set of version names, latest-version resolution
\* returns the numerically largest of the names that parse as numbers, or,
\* when none parses, the lexicographically last name, whatever the order of
\* the listing.
C18_LatestVersion ==
    LatestCalled
        => LET numbers == {v \in Visible : IsFloat(v)}
           IN  IF numbers # {}
               THEN /\ call.result[1] \in numbers
                    /\ \A v \in numbers :
                          _try_float(v) <= _try_float(call.result[1])
               ELSE /\ call.result[1] \in Visible
                    /\ \A v \in Visible :
                          LexRank(v) <= LexRank(call.result[1])

\* C19: latest-version resolution returns a name that does not parse as a
\* number only if no version name of the listing parses as a number.
C19_ClassicOnlyWithoutNumbers ==
    LatestCalled /\ ~IsFloat(call.result[1])
        => \A v \in Visible : ~IsFloat(v)

\* the step in which Storage.store returns
StoreReturns ==
    /\ call.fn = "store" /\ call.result = <<>>
    /\ call'.result = <<"None">>

\* C20: Storage.store always writes meta.json, the record without content;
\* it writes the blob of the given format if and only if a format is given
\* and the content is non-null, and otherwise leaves every blob as it was.
C20_StoreWrites ==
    [][StoreReturns
         => LET a == call.args
            IN  /\ meta'[StoreTriple] = a.extraction
                /\ \A t \in Triples \ {StoreTriple} :
                      meta'[t] = meta[t] /\ blobs'[t] = blobs[t]
                /\ IF a.content_fmt # NULL /\ a.content # NULL
                   THEN /\ blobs'[StoreTriple][a.content_fmt] = a.content
                        /\ \A f \in {"plain", "psv"} \ {a.content_fmt} :
                              blobs'[StoreTriple][f] = blobs[StoreTriple][f]
                   ELSE blobs' = blobs]_vars

C20_Witness ==
    /\ call.fn = "store" /\ call.result = <<"None">>
    /\ call.args.content_fmt = "psv" /\ call.args.content = NULL
    /\ meta[StoreTriple] = call.args.extraction
    /\ blobs[StoreTriple] = [plain |-> "old text", psv |-> NULL]

\* the step in which Storage.retrieve returns or raises
RetrieveEnds == call.fn = "retrieve" /\ call.result = <<>> /\ call'.result # <<>>

\* the version retrieve reads: the one asked for, or the largest directory
ReadVersion ==
    IF call.args.version # NULL
    THEN call.args.version
    ELSE CHOOSE v \in StoredDirs :
            \A u \in StoredDirs : _try_float(u) <= _try_float(v)

InFlight(t) ==
    /\ \E r \in Requests : req[r].code = 202 /\ ReqTriple(r) = t
    /\ queue[t] > 0 \/ Running(t) # {}

\* C23: between a submit answered 202 and the completion of its task, the
\* retrieve controller answers 303 to the status endpoint, and the status
\* controller answers 200 with status in_progress and content null.
C23_InProgressAnswers ==
    \A t \in Triples :
        InFlight(t)
            => /\ \A a \in controllers_retrieve(t[1], t[2], "plain", "none") :
                     /\ a.code = 303
                     /\ a.location = url_for("fulltext.task_status", t[1], t[2])
               /\ \A a \in get_task_status(t[1], t[2], "none") :
                     /\ a.code = 200
                     /\ a.data.status = IN_PROGRESS
                     /\ a.data.content = NULL

\* C24: get_task_status answers 303 with Location = the content endpoint
\* and body status succeeded when the extraction has succeeded, and
\* otherwise 200 with a body whose status is in_progress or failed, with
\* the failure reason when failed.
C24_StatusAnswer ==
    \A t \in Triples :
        meta[t].present
            => \A a \in get_task_status(t[1], t[2], "none") :
                 IF meta[t].status = SUCCEEDED
                 THEN /\ a.code = 303
                      /\ a.location = url_for("fulltext.retrieve", t[1], t[2])
                      /\ a.data.status = SUCCEEDED
                 ELSE /\ a.code = 200
                      /\ a.data.status \in {IN_PROGRESS, FAILED}
                      /\ a.data.status = FAILED
                            => a.data.exception # NULL /\ a.data.reason # NULL

\* the callers of the submission routes: the session of user 1234, and one
\* of another user, who owns nothing and holds no scope
Callers == {"user:1234", "user:5678"}

\* nothing is stored for t, or the authorizer of the caller rejects its owner
HiddenFrom(caller, t) ==
    \/ ~meta[t].present
    \/ ~authorize(caller, t[1], meta[t].owner)

\* C25: retrieve and get_task_status answer a caller the authorizer rejects
\* exactly as they answer when no extraction exists: 404 with the same body
\* and no Location, never 403.
C25_RejectedAsAbsent ==
    [][\A t \in Triples, caller \in Callers :
          (t[2] = SUBMISSION /\ HiddenFrom(caller, t) /\ HiddenFrom(caller, t)')
            => /\ controllers_retrieve(t[1], t[2], "plain", caller)'
                    = controllers_retrieve(t[1], t[2], "plain", caller)
               /\ get_task_status(t[1], t[2], caller)'
                    = get_task_status(t[1], t[2], caller)
               /\ \A a \in controllers_retrieve(t[1], t[2], "plain", caller)
                            \cup get_task_status(t[1], t[2], caller) :
                     a.code = 404 /\ a.location = NoLocation]_vars

C25_Witness ==
    \E t \in Triples :
        /\ t[2] = SUBMISSION
        /\ meta[t].present /\ meta[t].owner = "1234"
        /\ meta[t].status = SUCCEEDED /\ blobs[t].plain # NULL
        /\ ~authorize("user:5678", t[1], meta[t].owner)
        /\ controllers_retrieve(t[1], t[2], "plain", "user:1234")
              # controllers_retrieve(t[1], t[2], "plain", "user:5678")

\* C26: start_extraction writes no metadata record and publishes no task
\* for a submission identifier unless the authorizer approved (identifier,
\* owner) in that request, with force or without.
C26_SubmissionNeedsApproval ==
    [][\A r \in Requests :
          (/\ req'[r].id_type = SUBMISSION
           /\ \/ req[r].pc \in {"idle", "store"} /\ req'[r].pc = "publish"
              \/ req[r].pc = "publish" /\ req'[r].pc = "sent")
            => req'[r].approved]_vars

\* the upstream answered 200 with something that is no PDF
NotReady(response) ==
    response.status_code = 200 /\ response.content_type # "application/pdf"

\* C27: when every GET is answered 200 with a non-PDF content type,
\* retrieve re-issues the GET at most five times after the initial request
\* and then ends with IOError; when an attempt within that bound answers
\* application/pdf, it returns that PDF and issues no further GET.
C27_PdfRetries ==
    call.fn = "pdf.retrieve"
        => LET got == call.responses
               n == Len(got)
           IN  /\ n <= 1 + 5
               /\ \A i \in 1..(n - 1) : NotReady(got[i])
               /\ (n > 0 /\ NotReady(got[n]))
                    => \/ call.pc = "loop" /\ call.retries = 6 - n
                       \/ /\ call.pc = "done" /\ n = 6
                          /\ call.result = <<PdfResult("IOError", NULL)>>
               /\ (n > 0 /\ got[n].status_code = 200
                         /\ got[n].content_type = "application/pdf")
                    => /\ call.pc = "done"
                       /\ call.result = <<PdfResult(NULL, got[n].content)>>

C27_Witness ==
    /\ call.fn = "pdf.retrieve" /\ call.pc = "done"
    /\ Len(call.responses) = 6
    /\ \A i \in 1..6 : NotReady(call.responses[i])
    /\ call.result = <<PdfResult("IOError", NULL)>>
    /\ call.slept = 5 * 5

\* C28: on every exit path of do_extraction the PDF copied into WORKDIR,
\* {stub}.txt and {stub}.pdf2txt are gone when the call returns or raises.
C28_WorkdirCleaned ==
    (call.fn = "do_extraction" /\ call.pc = "done" /\ call.copied)
        => call.workdir = NoFiles

\* C29: do_extraction fails with the error for missing output both when the
\* sandbox leaves no {stub}.txt and when that file has zero bytes; it never
\* returns the empty string.
C29_NoContent ==
    (call.fn = "do_extraction" /\ call.pc = "done")
        => /\ call.result[1].content # ""
           /\ (call.copied /\ call.result[1].raised # "RuntimeError"
                 /\ call.produced \in {NULL, ""})
                => call.result[1].raised = "FileNotFoundError"

\* the run of worker w returns from extract, and with it every run of its
\* task has finished: no message of the task is left, no other worker runs
\* it, and no submit of it is under way
LastRunReturns(w) ==
    /\ wrk[w].pc = "return" /\ wrk'[w].pc = "idle" /\ queue' = queue
    /\ queue[wrk[w].task] = 0
    /\ Running(wrk[w].task) = {w}
    /\ \A r \in Requests :
          ReqTriple(r) = wrk[w].task => req[r].pc \in {"idle", "done"}

\* two submits of t were answered 202, one of them forced, and nothing in the
\* environment failed: two messages of the task were published and run
ForcedResubmit(t) ==
    /\ failures = 0
    /\ \A r \in Requests : ReqTriple(r) = t /\ req[r].code = 202
    /\ \E r \in Requests : req[r].force

\* C30: when a forced re-submit made two runs of one task overlap, then
\* after both have finished the stored status, ended and exception are those
\* written by the run that finished last.
C30_LastFinisherWins ==
    [][\A w \in Workers :
          (LastRunReturns(w) /\ ForcedResubmit(wrk[w].task))
            => LET stored == meta'[wrk[w].task]
                   written == wrk[w].extraction
               IN  /\ stored.status = written.status
                   /\ stored.ended = written.ended
                   /\ stored.exception = written.exception]_vars

\* create_task has returned the task id of t to a submit, which answered 202
Created(t) == \E r \in Requests : req[r].code = 202 /\ ReqTriple(r) = t

\* a worker's run of t ends and the backend records its outcome
WorkerRecords(t) ==
    \E w \in Workers :
        /\ wrk[w].task = t /\ wrk[w].pc \in {"return", "raise"}
        /\ wrk'[w].pc = "idle" /\ queue' = queue

C32_GetTaskMapping ==
    (call.fn = "get_task" /\ call.result # <<>>)
        => LET held == backend[call.args]
               task == call.result[1]
           IN  CASE held.state = "PENDING" -> task.error = "NoSuchTask"
                 [] held.state \in {"SENT", "STARTED", "RETRY"} ->
                       /\ task.error = NULL
                       /\ task.extraction.status = IN_PROGRESS
                 [] held.state = "FAILURE" ->
                       /\ task.error = NULL
                       /\ task.extraction.status = FAILED
                       /\ task.extraction.exception = held.result.exception
                 [] held.state = "SUCCESS" ->
                       /\ task.error = NULL
                       /\ task.extraction.status = SUCCEEDED
                       /\ task.extraction.owner = held.result.owner
                 [] OTHER ->
                       /\ task.error \notin {NULL, "NoSuchTask"}
                       /\ ~task.extraction.present

\* create_task returns in start_extraction request r
CreateTaskReturns(r) ==
    req[r].pc = "sent" /\ req'[r].pc = "done" /\ req'[r].code = 202

\* no worker has taken a message of t: none is at work, none was lost, and
\* the backend holds no outcome of a run
NoWorkerRan(t) ==
    /\ failures = 0
    /\ \A w \in Workers : wrk[w].pc = "idle"
    /\ backend[t].state = "PENDING"

\* a version directory of the paper sorts after the configured version
NewerStored(identifier, bucket) ==
    \E v \in VersionDirs(identifier, bucket) :
        v # get_version /\ _try_float(v) >= _try_float(get_version)

\* C33 as stated: when create_task returns and no worker has run, retrieve
\* with meta_only and no version returns a record with status in_progress,
\* whatever other version directories exist.
C33_Original ==
    [][\A r \in Requests :
          (CreateTaskReturns(r) /\ NoWorkerRan(ReqTriple(r)))
            => \A got \in retrieve_latest(req[r].identifier, req[r].id_type,
                                          "plain", TRUE)' :
                  /\ got.error = NULL
                  /\ got.extraction.status = IN_PROGRESS]_vars

\* C33: when create_task returns and no worker has run, retrieve with
\* meta_only and no version returns the in_progress record of the configured
\* version, provided no other version directory of the paper sorts after
\* the configured version.
C33_InProgressAfterCreate ==
    [][\A r \in Requests :
          (/\ CreateTaskReturns(r)
           /\ NoWorkerRan(ReqTriple(r))
           /\ ~NewerStored(req[r].identifier, req[r].id_type))
            => \A got \in retrieve_latest(req[r].identifier, req[r].id_type,
                                          "plain", TRUE)' :
                  /\ got.error = NULL
                  /\ got.extraction.status = IN_PROGRESS
                  /\ got.extraction.version = get_version]_vars

C33_Witness ==
    \E r \in Requests :
        /\ req[r].code = 202
        /\ meta[<<req[r].identifier, req[r].id_type, "0.2">>].status = SUCCEEDED
        /\ ~NewerStored(req[r].identifier, req[r].id_type)
        /\ \A w \in Workers : wrk[w].pc = "idle"
        /\ queue[ReqTriple(r)] = 1 /\ backend[ReqTriple(r)].state = "SENT"
        /\ meta[ReqTriple(r)].status = IN_PROGRESS

\* the paper has stored products and all belong to versions before the
\* configured one
OnlyEarlierStored(identifier, bucket) ==
    /\ VersionDirs(identifier, bucket) # {}
    /\ \A v \in VersionDirs(identifier, bucket) :
          _try_float(v) < _try_float(get_version)

\* C34: a start_extraction with force = false for a paper whose only stored
\* records belong to earlier extractor versions is not redirected with 303:
\* it goes on to create_task for the current version.
C34_NoRedirectForOtherVersions ==
    [][\A r \in Requests :
          (/\ req[r].pc = "idle" /\ req'[r].pc # "idle"
           /\ ~req'[r].force
           /\ OnlyEarlierStored(req'[r].identifier, req'[r].id_type))
            => /\ req'[r].code # 303
               /\ req'[r].code = 0 => req'[r].pc = "store"]_vars

\* C38: for a request that names no version, get_task_status asks the backend
\* for the task id recorded in the record it loaded, also when the latest
\* stored version is not the configured one.
C38_QueriesRecordedTask ==
    \A t \in Triples :
        \A v \in _latest_version(t[1], t[2]) :
            LET product == retrieve(meta, blobs, <<t[1], t[2], v>>, "plain", TRUE)
            IN  (product.error = NULL /\ product.extraction.status # SUCCEEDED)
                  => task_id(t[1], t[2], status_version(NULL))
                       = product.extraction.task_id

\* create_task raises TaskCreationFailed in request r, which answers 500
CreateTaskFails(r) ==
    req[r].pc # "done" /\ req'[r].pc = "done" /\ req'[r].code = 500

\* C35: when create_task fails with TaskCreationFailed, no in_progress record
\* remains for a triple whose task was never published.
C35_FailedCreateLeavesNoRecord ==
    [][\A r \in Requests, t \in Triples :
          (/\ CreateTaskFails(r) /\ ReqTriple(r)' = t
           /\ Published(t)' = 0 /\ queue'[t] = 0 /\ Running(t)' = {})
            => ~(meta'[t].present /\ meta'[t].status = IN_PROGRESS)]_vars

\* C36: whenever the stored status of a triple is failed, Storage.retrieve
\* with meta_only = false returns content null in every format.
C36_FailedHasNoContent ==
    \A t \in Triples, content_fmt \in {"plain", "psv"} :
        LET got == retrieve(meta, blobs, t, content_fmt, FALSE)
        IN  (got.error = NULL /\ got.extraction.status = FAILED)
              => got.content = NULL

\* C37: whenever the stored status of a triple is succeeded, its plain and
\* its psv blob exist, and controllers.retrieve answers 200 with content in
\* either format.
C37_SucceededHasBothBlobs ==
    \A t \in Triples :
        (meta[t].present /\ meta[t].status = SUCCEEDED)
          => /\ blobs[t].plain # NULL /\ blobs[t].psv # NULL
             /\ \A content_fmt \in {"plain", "psv"} :
                   \A a \in controllers_retrieve(t[1], t[2], content_fmt, "none") :
                       a.code = 200 /\ a.data.content # NULL

\* C39: Storage.is_available leaves the volume as it found it when it
\* returns true, and returns false when a write fails.
C39_AvailableLeavesNoTrace ==
    (call.fn = "is_available" /\ call.pc = "done")
        => /\ call.result = <<"True">> => call.fs = call.found
           /\ call.failed # NULL => call.result = <<"False">>

\* the numbers of the lines that match the heading of a reference section
Headings(lines) == {i \in 1..Len(lines) : regex_refsection(lines[i])}

\* C40: split_on_references partitions the lines in order into body and
\* refs; refs starts at the last line matching the heading; refs is empty
\* when no line matches or when the lines after that heading are more than
\* half of all lines.
C40_SplitOnReferences ==
    (call.fn = "split_on_references" /\ call.result # <<>>)
        => LET lines == call.args
               body == call.result[1][1]
               refs == call.result[1][2]
               n == Len(lines)
               last == CHOOSE i \in Headings(lines) :
                          \A j \in Headings(lines) : j <= i
           IN  /\ body \o refs = lines
               /\ IF Headings(lines) = {} \/ 2 * (n - last) > n
                  THEN refs = <<>>
                  ELSE refs = SubSeq(lines, last, n)

C40_Witness ==
    /\ call.fn = "split_on_references" /\ call.result # <<>>
    /\ Cardinality(Headings(call.args)) = 2
    /\ Len(call.result[1][1]) = 2
    /\ Len(call.result[1][2]) = 2
    /\ regex_refsection(call.result[1][1][1])

====
